---- MODULE Spec2Model ----
(***************************************************************************)
(* Model of the route-protection middleware (middleware.ts) and of the     *)
(* role helpers of lib/auth.ts of neo-starter.                             *)
(*                                                                         *)
(* Strings are sequences of tokens.  A token is an atomic run of           *)
(* characters ("/", "dashboard", "x", ...); no token is a proper prefix of *)
(* another token that can follow it, so String.prototype.startsWith on the *)
(* text is SubSeq-prefix on the token sequence.                            *)
(***************************************************************************)
EXTENDS Integers, Sequences, FiniteSets, TLC

VARIABLES
    pc,                \* position of the middleware invocation
    request,           \* the NextRequest: nextUrl and cookies
    supabaseResponse,  \* middleware's `let supabaseResponse`
    user,              \* data.user of supabase.auth.getUser()
    userError,         \* error of supabase.auth.getUser()
    refreshed,         \* the cookiesToSet the session provider handed to setAll
    profile,           \* data of the role lookup (`const { data: profile }`)
    response,          \* the response middleware returned
    users,             \* the `users` table of the profile store: id -> row
    session,           \* the identity carried by the caller's cookies (auth.ts calls)
    call,              \* the last auth.ts call and its result
    routes,            \* the four module-level route tables of middleware.ts
    trail,             \* the URLs the client requested in this navigation, in order
    intended,          \* the pathname asked for before the client was sent to sign in
    inv,               \* concurrent invocations of middleware: invocation -> its locals
    cell,              \* the supabaseResponse bindings of the concurrent invocations
    pwd,               \* the last validatePassword call: its argument and its result
    lastStatusCall     \* history: id -> the last banUser/unbanUser call on it that succeeded

vars == <<pc, request, supabaseResponse, user, userError, refreshed, profile, response,
          users, session, call, routes, trail, intended, inv, cell, pwd,
          lastStatusCall>>

mwVars == <<pc, request, supabaseResponse, user, userError, refreshed, profile, response>>

navVars == <<trail, intended>>

concVars == <<inv, cell>>

pureVars == <<pwd, lastStatusCall>>

-----------------------------------------------------------------------------
(* Bounds *)

\* Longest run of tokens appended to a route when request paths are drawn.
MaxSuffixLen == 2

\* The most redirects a client follows in a row before it gives up.
MaxHops == 4

\* The number of invocations of middleware in flight at once.
MaxInvocations == 2

\* Passwords: any characters up to MaxCoreLen, then one character repeated up to
\* MaxPadLen times.
MaxCoreLen == 4
MaxPadLen == 5

-----------------------------------------------------------------------------
(* Strings *)

\* String.prototype.startsWith
StartsWith(s, prefix) ==
    /\ Len(prefix) <= Len(s)
    /\ SubSeq(s, 1, Len(prefix)) = prefix

\* An optional value (null | v) is <<>> or <<v>>.
Null == <<>>
Some(v) == <<v>>

\* JavaScript truthiness of a string | null: null and "" are falsy.
Truthy(opt) == opt # Null /\ opt[1] # <<>>

-----------------------------------------------------------------------------
(* Route tables *)

\* Variant: /admin is listed with the admin routes only.
protectedRoutesWithoutAdmin ==
    { <<"/", "dashboard">>, <<"/", "profile">>, <<"/", "settings">> }

protectedRoutes ==
    { <<"/", "dashboard">>, <<"/", "profile">>, <<"/", "settings">>, <<"/", "admin">> }

authRoutes ==
    { <<"/", "login">>, <<"/", "signup">>, <<"/", "forgot-password">>,
      <<"/", "reset-password">> }

\* Variant: /dashboard is listed as public too.
publicRoutesWithDashboard ==
    { <<"/">>, <<"/", "about">>, <<"/", "contact">>, <<"/", "pricing">>, <<"/", "blog">>,
      <<"/", "dashboard">> }

publicRoutes ==
    { <<"/">>, <<"/", "about">>, <<"/", "contact">>, <<"/", "pricing">>, <<"/", "blog">> }

adminRoutes == { <<"/", "admin">> }

authCallbackPrefix == <<"/", "auth", "/", "callback">>

\* config.matcher: '/((?!_next/static|_next/image|favicon.ico|robots.txt|
\* sitemap.xml|.*\\.(?:svg|png|jpg|jpeg|gif|webp|ico|css|js)$).*)'.  A file
\* extension with its dot is one token.
matcherExcludedPrefixes ==
    { <<"_next", "/", "static">>, <<"_next", "/", "image">>, <<"favicon.ico">>,
      <<"robots.txt">>, <<"sitemap.xml">> }

matcherExcludedExtensions ==
    { ".svg", ".png", ".jpg", ".jpeg", ".gif", ".webp", ".ico", ".css", ".js" }

\* The pathname matches the matcher's pattern: after the leading "/" the rest is
\* anything the negative lookahead does not reject.
matcher(pathname) ==
    /\ pathname # <<>> /\ Head(pathname) = "/"
    /\ LET rest == Tail(pathname)
       IN  /\ ~ \E q \in matcherExcludedPrefixes : StartsWith(rest, q)
           /\ ~ (rest # <<>> /\ rest[Len(rest)] \in matcherExcludedExtensions)

\* The tables as the module declares them.
RouteTables ==
    [protectedRoutes |-> protectedRoutes, authRoutes |-> authRoutes,
     publicRoutes |-> publicRoutes, adminRoutes |-> adminRoutes]

-----------------------------------------------------------------------------
(* URL and URLSearchParams *)

\* URLSearchParams.get: the value of the first pair named key, or null.
RECURSIVE SearchGet(_, _)
SearchGet(search, key) ==
    IF search = <<>> THEN Null
    ELSE IF Head(search).key = key THEN Some(Head(search).value)
    ELSE SearchGet(Tail(search), key)

RECURSIVE SearchWithout(_, _)
SearchWithout(search, key) ==
    IF search = <<>> THEN <<>>
    ELSE IF Head(search).key = key THEN SearchWithout(Tail(search), key)
    ELSE <<Head(search)>> \o SearchWithout(Tail(search), key)

\* URLSearchParams.set: the first pair named key takes the value and the other
\* pairs of that name are removed; without one, the pair is appended.
RECURSIVE SearchSet(_, _, _)
SearchSet(search, key, value) ==
    IF search = <<>> THEN << [key |-> key, value |-> value] >>
    ELSE IF Head(search).key = key
         THEN << [key |-> key, value |-> value] >> \o SearchWithout(Tail(search), key)
         ELSE << Head(search) >> \o SearchSet(Tail(search), key, value)

\* The segments of a path text, split at every "/".
RECURSIVE SplitSegments(_, _)
SplitSegments(s, cur) ==
    IF s = <<>> THEN << cur >>
    ELSE IF Head(s) = "/" THEN << cur >> \o SplitSegments(Tail(s), <<>>)
    ELSE SplitSegments(Tail(s), Append(cur, Head(s)))

IsDoubleDot(seg) == seg = <<"..">> \/ seg = <<".", ".">>
IsSingleDot(seg) == seg = <<".">>

\* The path percent-encode set, as far as the tokens go: "?" is written %3F.
PercentEncode(seg) == [i \in 1..Len(seg) |-> IF seg[i] = "?" THEN "%3F" ELSE seg[i]]

\* The URL standard's path state over the segments: ".." drops the last segment,
\* "." is skipped, and either one in last place leaves an empty last segment.
RECURSIVE PathState(_, _)
PathState(segs, path) ==
    IF segs = <<>> THEN path
    ELSE LET seg  == Head(segs)
             last == Len(segs) = 1
             shortened == IF path = <<>> THEN <<>> ELSE SubSeq(path, 1, Len(path) - 1)
         IN  IF IsDoubleDot(seg)
             THEN PathState(Tail(segs), IF last THEN Append(shortened, <<>>) ELSE shortened)
             ELSE IF IsSingleDot(seg)
             THEN PathState(Tail(segs), IF last THEN Append(path, <<>>) ELSE path)
             ELSE PathState(Tail(segs), Append(path, PercentEncode(seg)))

RECURSIVE JoinPath(_)
JoinPath(path) ==
    IF path = <<>> THEN <<>>
    ELSE <<"/">> \o Head(path) \o JoinPath(Tail(path))

\* The pathname setter of URL (NextURL hands the value to its inner URL): the value
\* is parsed from the path start state, which skips one leading "/".
URLSetPathname(url, value) ==
    LET rest == IF value # <<>> /\ Head(value) = "/" THEN Tail(value) ELSE value
    IN  [url EXCEPT !.pathname = JoinPath(PathState(SplitSegments(rest, <<>>), <<>>))]

URLSetSearch(url, search) == [url EXCEPT !.search = search]

-----------------------------------------------------------------------------
(* Cookies and responses *)

\* RequestCookies.set / ResponseCookies.set: one cookie per name.
CookieSet(jar, cookie) == { c \in jar : c.name # cookie.name } \cup { cookie }

RECURSIVE CookiesSetAll(_, _)
CookiesSetAll(jar, cookiesToSet) ==
    IF cookiesToSet = <<>> THEN jar
    ELSE CookiesSetAll(CookieSet(jar, Head(cookiesToSet)), Tail(cookiesToSet))

\* NextResponse.next({ request }): a pass-through response with no cookies of its own.
NextResponseNext == [kind |-> "next", location |-> Null, cookies |-> {}]

\* NextResponse.redirect(url): a new response; nothing is copied onto it.
NextResponseRedirect(url) == [kind |-> "redirect", location |-> Some(url), cookies |-> {}]

\* The cookies.setAll handler given to createServerClient.  The provider calls it
\* only with cookies to set.
setAll(req, sr, cookiesToSet) ==
    IF cookiesToSet = <<>>
    THEN [request |-> req, supabaseResponse |-> sr]
    ELSE [request |-> [req EXCEPT !.cookies = CookiesSetAll(@, cookiesToSet)],
          supabaseResponse |->
              [NextResponseNext EXCEPT !.cookies = CookiesSetAll(@, cookiesToSet)]]

-----------------------------------------------------------------------------
(* Identities and the profile store *)

UserIds == {"u1", "u2", "u3"}
NoUser == "null"

UserRole == {"user", "moderator", "admin"}

\* Values of the name column; "null" is SQL NULL.
Names == {"n0", "n1"}
NullName == "null"

NoRow == [role |-> "none", is_active |-> FALSE, name |-> NullName]

\* What supabase.auth.getUser() resolves to: { data: { user }, error }.
AuthOutcomes ==
    { [user |-> NoUser, error |-> FALSE], [user |-> NoUser, error |-> TRUE] }
        \cup { [user |-> u, error |-> FALSE] : u \in UserIds }

\* What the provider may hand to setAll while it resolves the identity.
CookiesToSet == { <<>>, << [name |-> "sb-auth-token", value |-> "refreshed"] >> }

\* Variant: the roles are read once, when the module is loaded.
LookupOutcomesAtStart(id) ==
    { Null, Some([role |-> CASE id = "u1" -> "user" [] id = "u2" -> "moderator"
                                [] OTHER -> "admin",
                  is_active |-> TRUE, name |-> "n0"]) }

\* What .from('users').select('role').eq('id', id).single() resolves to: the row,
\* or no data (a store error, or no such row).
LookupOutcomes(id) ==
    { Null } \cup (IF users[id] = NoRow THEN {} ELSE { Some(users[id]) })

-----------------------------------------------------------------------------
(* middleware *)

\* Variant: the arguments of startsWith are exchanged.
isProtectedRouteSwapped(pathname) ==
    \E route \in routes.protectedRoutes : StartsWith(route, pathname)

isProtectedRoute(pathname) ==
    \E route \in routes.protectedRoutes : StartsWith(pathname, route)

isAuthRoute(pathname) == \E route \in routes.authRoutes : StartsWith(pathname, route)

\* Variant: a public route matches as a plain prefix, like the other tables.
isPublicRoutePrefix(pathname) ==
    \E route \in routes.publicRoutes : StartsWith(pathname, route)

isPublicRoute(pathname) ==
    \E route \in routes.publicRoutes :
        pathname = route \/ StartsWith(pathname, route \o <<"/">>)

isAdminRoute(pathname) == \E route \in routes.adminRoutes : StartsWith(pathname, route)

isAuthCallback(pathname) == StartsWith(pathname, authCallbackPrefix)

\* Variant: redirectTo is appended (searchParams.append) instead of set.
LoginRedirectAppend(req) ==
    LET redirectUrl == URLSetPathname(req.nextUrl, <<"/", "login">>)
    IN  NextResponseRedirect(
            URLSetSearch(redirectUrl,
                         Append(redirectUrl.search,
                                [key |-> "redirectTo", value |-> req.nextUrl.pathname])))

\* Variant: the path is carried in a parameter named next.
LoginRedirectNext(req) ==
    LET redirectUrl == URLSetPathname(req.nextUrl, <<"/", "login">>)
    IN  NextResponseRedirect(
            URLSetSearch(redirectUrl,
                         SearchSet(redirectUrl.search, "next", req.nextUrl.pathname)))

\* Protected route, no user: the clone of the request URL with pathname /login and
\* redirectTo set to the request pathname.
LoginRedirect(req) ==
    LET redirectUrl == URLSetPathname(req.nextUrl, <<"/", "login">>)
    IN  NextResponseRedirect(
            URLSetSearch(redirectUrl,
                         SearchSet(redirectUrl.search, "redirectTo", req.nextUrl.pathname)))

\* Variant: the caller without the admin role is sent to the home page.
DashboardRedirectHome(req) ==
    NextResponseRedirect(URLSetPathname(req.nextUrl, <<"/">>))

\* Admin route, role other than admin: the clone with pathname /dashboard.
DashboardRedirect(req) ==
    NextResponseRedirect(URLSetPathname(req.nextUrl, <<"/", "dashboard">>))

\* Variant: only the role user is turned away (profile?.role === 'user').
NotAdminOnlyUser(data) == data = Null \/ data[1].role = "user"

\* Variant: only a profile that was found can be turned away
\* (profile && profile.role !== 'admin').
NotAdminWhenFound(data) == data # Null /\ data[1].role # "admin"

\* profile?.role !== 'admin'
NotAdmin(data) == data = Null \/ data[1].role # "admin"

\* Variant: redirectTo is compared with the auth routes for equality.
UseRedirectToExact(redirectTo) ==
    /\ Truthy(redirectTo)
    /\ ~ \E route \in routes.authRoutes : redirectTo[1] = route

\* redirectTo && !authRoutes.some(route => redirectTo.startsWith(route))
UseRedirectTo(redirectTo) ==
    /\ Truthy(redirectTo)
    /\ ~ \E route \in routes.authRoutes : StartsWith(redirectTo[1], route)

\* Variant: the query string of the request is left on the redirect URL.
AuthRouteRedirectKeepsSearch(req) ==
    LET redirectTo == SearchGet(req.nextUrl.search, "redirectTo")
    IN  IF UseRedirectTo(redirectTo)
        THEN NextResponseRedirect(URLSetPathname(req.nextUrl, redirectTo[1]))
        ELSE NextResponseRedirect(URLSetPathname(req.nextUrl, <<"/", "dashboard">>))

\* Variant: redirectTo is resolved against the request URL as a URL reference
\* (new URL(redirectTo, request.url)), so "//host/..." and "scheme://host/..." name
\* their own origin.
AuthRouteRedirectResolved(req) ==
    LET redirectTo == SearchGet(req.nextUrl.search, "redirectTo")
        v == redirectTo[1]
        named == \/ Len(v) >= 3 /\ v[1] = "/" /\ v[2] = "/"
                 \/ Len(v) >= 4 /\ v[1] = "https:" /\ v[2] = "/" /\ v[3] = "/"
    IN  IF UseRedirectTo(redirectTo)
        THEN IF named
             THEN NextResponseRedirect(
                      [origin |-> "https://evil.example", pathname |-> <<"/">>, search |-> <<>>])
             ELSE NextResponseRedirect(
                      URLSetSearch(URLSetPathname(req.nextUrl, v), <<>>))
        ELSE NextResponseRedirect(
                 URLSetSearch(URLSetPathname(req.nextUrl, <<"/", "dashboard">>), <<>>))

\* Variant: redirectTo is ignored.
AuthRouteRedirectDefault(req) ==
    NextResponseRedirect(URLSetSearch(URLSetPathname(req.nextUrl, <<"/", "dashboard">>), <<>>))

\* Auth route, user present: to redirectTo or to /dashboard, the search emptied.
AuthRouteRedirect(req) ==
    LET redirectTo == SearchGet(req.nextUrl.search, "redirectTo")
    IN  IF UseRedirectTo(redirectTo)
        THEN NextResponseRedirect(
                 URLSetSearch(URLSetPathname(req.nextUrl, redirectTo[1]), <<>>))
        ELSE NextResponseRedirect(
                 URLSetSearch(URLSetPathname(req.nextUrl, <<"/", "dashboard">>), <<>>))

\* Variant: every caller is sent away from an auth route (if (isAuthRoute)).
AuthRouteStageAnyCaller(req, sr, u) ==
    IF isAuthRoute(req.nextUrl.pathname)
    THEN AuthRouteRedirect(req)
    ELSE sr

\* The rest of middleware from `if (isAuthRoute && user)` on.
AuthRouteStage(req, sr, u) ==
    IF isAuthRoute(req.nextUrl.pathname) /\ u # NoUser
    THEN AuthRouteRedirect(req)
    ELSE sr

\* Variant: a public match returns at once, whatever else the path matches.
DecidePublicFirst(req, sr, u) ==
    LET pathname == req.nextUrl.pathname
    IN  IF isAuthCallback(pathname) THEN [await |-> FALSE, response |-> sr]
        ELSE IF isPublicRoute(pathname)
        THEN [await |-> FALSE, response |-> sr]
        ELSE IF isProtectedRoute(pathname) /\ u = NoUser
        THEN [await |-> FALSE, response |-> LoginRedirect(req)]
        ELSE IF isProtectedRoute(pathname) /\ isAdminRoute(pathname)
        THEN [await |-> TRUE, response |-> sr]
        ELSE [await |-> FALSE, response |-> AuthRouteStage(req, sr, u)]

\* middleware from `const { pathname } = request.nextUrl` up to the role lookup it
\* awaits: a response, or "lookup" when the profile store is asked.
Decide(req, sr, u) ==
    LET pathname == req.nextUrl.pathname
    IN  IF isAuthCallback(pathname) THEN [await |-> FALSE, response |-> sr]
        ELSE IF isPublicRoute(pathname) /\ ~isProtectedRoute(pathname)
        THEN [await |-> FALSE, response |-> sr]
        ELSE IF isProtectedRoute(pathname) /\ u = NoUser
        THEN [await |-> FALSE, response |-> LoginRedirect(req)]
        ELSE IF isProtectedRoute(pathname) /\ isAdminRoute(pathname)
        THEN [await |-> TRUE, response |-> sr]
        ELSE [await |-> FALSE, response |-> AuthRouteStage(req, sr, u)]

\* Variant: a provider error sends the caller to /login at once.
OnGetUserErrorToLogin(req, sr, auth) ==
    IF auth.error THEN [await |-> FALSE, response |-> LoginRedirect(req)]
    ELSE Decide(req, sr, auth.user)

\* Variant: a provider error is thrown on.
OnGetUserThrows(req, sr, auth) ==
    IF auth.error
    THEN [await |-> FALSE, response |-> [kind |-> "error", location |-> Null, cookies |-> {}]]
    ELSE Decide(req, sr, auth.user)

\* The destructuring of getUser's result: only data.user is used; the error is
\* logged in development.
OnGetUser(req, sr, auth) == Decide(req, sr, auth.user)

\* The continuation after the role lookup.
OnLookup(req, sr, u, data) ==
    IF NotAdmin(data) THEN DashboardRedirect(req) ELSE AuthRouteStage(req, sr, u)

-----------------------------------------------------------------------------
(* Requests *)

Origin == "https://app.example"

SuffixTokens == {"/", "x"}

Suffixes == UNION { [1..k -> SuffixTokens] : k \in 0..MaxSuffixLen }

PathHeads ==
    { <<"/">>, <<"/", "x">>, <<"/", "auth">>, authCallbackPrefix }
        \cup protectedRoutes \cup authRoutes \cup publicRoutes \cup adminRoutes

\* Request pathnames: a route, or another head, and a short run of tokens.
PathInputs == { h \o s : h \in PathHeads, s \in Suffixes }

\* Request pathnames of files and of the framework's own routes: a name with an
\* extension under a route, an extension inside a longer path, and the paths the
\* matcher names.
FileHeads == protectedRoutes \cup { <<"/">>, <<"/", "about">> }

FilePathInputs ==
    { h \o <<"/", "x", e>> : h \in FileHeads, e \in {".js", ".png"} }
        \cup { h \o <<"/", "x", ".js", "/", "x">> : h \in protectedRoutes }
        \cup { <<"/">> \o q : q \in matcherExcludedPrefixes }
        \cup { <<"/", "_next", "/", "static", "/", "x", ".js">>, <<"/", "_next", "/", "data">> }

\* Tails of the redirectTo values that are paths.
RedirectSuffixes == { <<>>, <<"x">>, <<"/", "x">> }

\* redirectTo values that name another origin when read as a URL reference.
ForeignRedirectToInputs ==
    { <<"/", "/", "evil.example">>, <<"/", "/", "evil.example", "/", "x">>,
      <<"https:", "/", "/", "evil.example">> }

\* redirectTo values: "", a path, a head without its leading "/", with dot
\* segments, or with a character the pathname setter escapes, and the values
\* that name another origin.
RedirectToInputs ==
    { <<>>, <<"/", "x", ".js">> }
        \cup ForeignRedirectToInputs
        \cup { h \o s : h \in PathHeads, s \in RedirectSuffixes }
        \cup UNION { { Tail(h), <<"/", "x", "/", "..">> \o h, <<"/", ".">> \o h, h \o <<"?">> }
                     : h \in PathHeads }

Param(key, value) == [key |-> key, value |-> value]

\* Query strings: none, another parameter, redirectTo alone, after another
\* parameter, and given twice.
SearchInputs ==
    { <<>>, << Param("tab", <<"x">>) >> }
        \cup { << Param("redirectTo", v) >> : v \in RedirectToInputs }
        \cup { << Param("tab", <<"x">>), Param("redirectTo", h) >> : h \in PathHeads }
        \cup { << Param("redirectTo", h), Param("redirectTo", <<"/", "x">>) >> : h \in PathHeads }

RequestCookies == { [name |-> "sb-auth-token", value |-> "stale"] }

Requests ==
    { [nextUrl |-> [origin |-> Origin, pathname |-> p, search |-> s],
       cookies |-> RequestCookies] : p \in PathInputs \cup FilePathInputs, s \in SearchInputs }

\* Requests for the admin pages, without a query string.
AdminRequests ==
    { req \in Requests : /\ StartsWith(req.nextUrl.pathname, <<"/", "admin">>)
                         /\ req.nextUrl.search = <<>>
                         /\ matcher(req.nextUrl.pathname) }

\* The requests the matcher hands to middleware, and those it does not.
MatchedRequests == { req \in Requests : matcher(req.nextUrl.pathname) }
UnmatchedRequests == Requests \ MatchedRequests

-----------------------------------------------------------------------------
(* Actions *)

Invocations == 1..MaxInvocations

\* The locals of an invocation that has not begun.
NoInvocation ==
    [pc |-> "idle",
     req |-> [nextUrl |-> [origin |-> Origin, pathname |-> <<"/">>, search |-> <<>>],
              cookies |-> {}],
     auth |-> [user |-> NoUser, error |-> FALSE],
     cookiesToSet |-> <<>>,
     request |-> [nextUrl |-> [origin |-> Origin, pathname |-> <<"/">>, search |-> <<>>],
                  cookies |-> {}],
     profile |-> Null,
     response |-> NextResponseNext]

\* No request is in middleware.
MiddlewareIdle ==
    /\ pc = "idle"
    /\ request = [nextUrl |-> [origin |-> Origin, pathname |-> <<"/">>, search |-> <<>>],
                  cookies |-> {}]
    /\ supabaseResponse = NextResponseNext
    /\ user = NoUser
    /\ userError = FALSE
    /\ refreshed = <<>>
    /\ profile = Null
    /\ response = NextResponseNext
    /\ trail = <<>>
    /\ intended = Null
    /\ inv = [i \in Invocations |-> NoInvocation]
    /\ cell = [i \in Invocations |-> NextResponseNext]

\* middleware(request) up to its return or to the await of the role lookup.  The
\* request, what getUser resolves to and what the provider hands to setAll are
\* the inputs.
Invocation(req, auth, cookiesToSet) ==
    LET set == setAll(req, NextResponseNext, cookiesToSet)
        d   == OnGetUser(set.request, set.supabaseResponse, auth)
    IN  /\ request' = set.request
        /\ supabaseResponse' = set.supabaseResponse
        /\ user' = auth.user
        /\ userError' = auth.error
        /\ refreshed' = cookiesToSet
        /\ profile' = Null
        /\ pc' = IF d.await THEN "lookup" ELSE "done"
        /\ response' = d.response

\* A request the matcher hands to middleware arrives.
middleware ==
    /\ pc = "idle"
    /\ \E req \in MatchedRequests, auth \in AuthOutcomes, cookiesToSet \in CookiesToSet :
           /\ Invocation(req, auth, cookiesToSet)
           /\ trail' = << req.nextUrl >>
    /\ intended' = Null
    /\ UNCHANGED <<users, session, call, routes, concVars, pureVars>>

\* The framework serves a request without invoking middleware.
Served(req) ==
    /\ request' = req
    /\ pc' = "unmatched"
    /\ supabaseResponse' = NextResponseNext
    /\ user' = NoUser
    /\ userError' = FALSE
    /\ refreshed' = <<>>
    /\ profile' = Null
    /\ response' = NextResponseNext

\* A request whose pathname the matcher does not match: the framework serves it
\* and middleware is not invoked.
unmatched ==
    /\ pc = "idle"
    /\ \E req \in UnmatchedRequests :
           /\ Served(req)
           /\ trail' = << req.nextUrl >>
    /\ intended' = Null
    /\ UNCHANGED <<users, session, call, routes, concVars, pureVars>>

\* middleware from the resolved role lookup to its return.
middlewareLookup ==
    /\ pc = "lookup"
    /\ \E data \in LookupOutcomes(user) :
           /\ profile' = data
           /\ response' = OnLookup(request, supabaseResponse, user, data)
    /\ pc' = "done"
    /\ UNCHANGED <<request, supabaseResponse, user, userError, refreshed,
                   users, session, call, routes, navVars, concVars, pureVars>>

\* A request for an admin page arrives.
middlewareAdminRequest ==
    /\ pc = "idle"
    /\ \E req \in AdminRequests, auth \in AuthOutcomes, cookiesToSet \in CookiesToSet :
           /\ Invocation(req, auth, cookiesToSet)
           /\ trail' = << req.nextUrl >>
    /\ intended' = Null
    /\ UNCHANGED <<users, session, call, routes, concVars, pureVars>>

\* The response has been sent; the next request finds nothing of this one.
nextRequest ==
    /\ pc \in {"done", "unmatched"}
    /\ pc' = "idle"
    /\ request' = [nextUrl |-> [origin |-> Origin, pathname |-> <<"/">>, search |-> <<>>],
                   cookies |-> {}]
    /\ supabaseResponse' = NextResponseNext
    /\ user' = NoUser
    /\ userError' = FALSE
    /\ refreshed' = <<>>
    /\ profile' = Null
    /\ response' = NextResponseNext
    /\ trail' = <<>>
    /\ intended' = Null
    /\ UNCHANGED <<users, session, call, routes, concVars, pureVars>>

\* The role column of a row of the users table is changed in the profile store.
changeRole ==
    /\ \E id \in UserIds, role \in UserRole :
           /\ users[id] # NoRow
           /\ users' = [users EXCEPT ![id].role = role]
    /\ UNCHANGED <<mwVars, session, call, routes, navVars, concVars, pureVars>>

\* The cookies the client sends next: those it sent, with the response's
\* Set-Cookie headers applied.
ClientCookies ==
    { c \in RequestCookies : ~ \E d \in response.cookies : d.name = c.name }
        \cup response.cookies

\* The client follows the redirect middleware returned: it requests the Location
\* with the same session, and the provider answers as before.
followRedirect ==
    /\ pc = "done"
    /\ response.kind = "redirect"
    /\ Len(trail) <= MaxHops
    /\ LET req == [nextUrl |-> response.location[1], cookies |-> ClientCookies]
       IN  /\ IF matcher(req.nextUrl.pathname)
              THEN Invocation(req, [user |-> user, error |-> userError], refreshed)
              ELSE Served(req)
           /\ trail' = Append(trail, req.nextUrl)
    /\ intended' = Null
    /\ UNCHANGED <<users, session, call, routes, concVars, pureVars>>

\* The client that was sent to /login signs in and then requests the login URL
\* it was sent to.
requestAfterSignIn ==
    /\ pc = "done"
    /\ user = NoUser
    /\ response.kind = "redirect"
    /\ response.location[1].pathname = <<"/", "login">>
    /\ \E u \in UserIds, cookiesToSet \in CookiesToSet :
           LET req == [nextUrl |-> response.location[1],
                       cookies |-> CookieSet(ClientCookies,
                                             [name |-> "sb-auth-token", value |-> "signed-in"])]
           IN  /\ Invocation(req, [user |-> u, error |-> FALSE], cookiesToSet)
               /\ trail' = << req.nextUrl >>
    /\ intended' = Some(request.nextUrl.pathname)
    /\ UNCHANGED <<users, session, call, routes, concVars, pureVars>>

-----------------------------------------------------------------------------
(* Concurrent invocations of middleware *)

\* Requests and callers of the concurrent invocations: an admin page, a login
\* page with a redirectTo, a public page; no caller, a user, an admin.
ConcRequests ==
    { [nextUrl |-> [origin |-> Origin, pathname |-> <<"/", "admin">>, search |-> <<>>],
       cookies |-> RequestCookies],
      [nextUrl |-> [origin |-> Origin, pathname |-> <<"/", "login">>,
                    search |-> << Param("redirectTo", <<"/", "profile">>) >>],
       cookies |-> RequestCookies],
      [nextUrl |-> [origin |-> Origin, pathname |-> <<"/", "about">>, search |-> <<>>],
       cookies |-> RequestCookies] }

ConcAuthOutcomes == { a \in AuthOutcomes : ~a.error /\ a.user \in {NoUser, "u1", "u3"} }

\* Variant: supabaseResponse is declared at module level, one binding for all
\* invocations.
ResponseCellOfModule(i) == 1

\* `let supabaseResponse` is a local of the function body: each invocation has a
\* binding of its own.
ResponseCell(i) == i

\* Invocation i begins: supabaseResponse = NextResponse.next({ request }), the
\* client is created, and getUser is awaited.
invokeMiddleware(i) ==
    /\ inv[i].pc = "idle"
    /\ \E req \in ConcRequests, auth \in ConcAuthOutcomes, cookiesToSet \in CookiesToSet :
           inv' = [inv EXCEPT ![i] = [NoInvocation EXCEPT !.pc = "getUser", !.req = req,
                                                          !.request = req, !.auth = auth,
                                                          !.cookiesToSet = cookiesToSet]]
    /\ cell' = [cell EXCEPT ![ResponseCell(i)] = NextResponseNext]
    /\ UNCHANGED <<mwVars, users, session, call, routes, navVars, pureVars>>

\* While getUser of invocation i is pending, the provider calls setAll.
providerSetAll(i) ==
    /\ inv[i].pc = "getUser"
    /\ LET set == setAll(inv[i].request, cell[ResponseCell(i)], inv[i].cookiesToSet)
       IN  /\ inv' = [inv EXCEPT ![i].request = set.request, ![i].pc = "resolved"]
           /\ cell' = [cell EXCEPT ![ResponseCell(i)] = set.supabaseResponse]
    /\ UNCHANGED <<mwVars, users, session, call, routes, navVars, pureVars>>

\* getUser of invocation i has resolved: the invocation runs on to its return or
\* to the await of the role lookup.
resumeAfterGetUser(i) ==
    /\ inv[i].pc = "resolved"
    /\ LET d == OnGetUser(inv[i].request, cell[ResponseCell(i)], inv[i].auth)
       IN  inv' = [inv EXCEPT ![i].pc = IF d.await THEN "lookup" ELSE "done",
                              ![i].response = d.response]
    /\ UNCHANGED <<mwVars, users, session, call, routes, navVars, cell, pureVars>>

\* The role lookup of invocation i has resolved: the invocation runs on to its
\* return.
resumeAfterLookup(i) ==
    /\ inv[i].pc = "lookup"
    /\ \E data \in LookupOutcomes(inv[i].auth.user) :
           inv' = [inv EXCEPT ![i].pc = "done",
                              ![i].profile = data,
                              ![i].response = OnLookup(inv[i].request, cell[ResponseCell(i)],
                                                       inv[i].auth.user, data)]
    /\ UNCHANGED <<mwVars, users, session, call, routes, navVars, cell, pureVars>>

-----------------------------------------------------------------------------
(* lib/auth.ts: role helpers *)

\* What supabase.auth.getUser() resolves to for the caller's cookies: the identity
\* of the session, or no user with an error.
SessionOutcomes ==
    { [user |-> session, error |-> FALSE], [user |-> NoUser, error |-> TRUE] }

\* getCurrentUser of lib/supabase/server.ts: null on an error.
getCurrentUser(auth) == IF auth.error THEN NoUser ELSE auth.user

\* What .from('users').select('*').eq('id', id).single() resolves to.
ProfileOutcomes(id) ==
    { [data |-> Null, error |-> TRUE] }
        \cup (IF id \in UserIds /\ users[id] # NoRow
              THEN { [data |-> Some(users[id]), error |-> FALSE] }
              ELSE {})

\* getCurrentUserProfile: null without a user or on a store error.
getCurrentUserProfile(auth, row) ==
    IF getCurrentUser(auth) = NoUser THEN Null
    ELSE IF row.error THEN Null
    ELSE row.data

\* Variant: the ranks follow the order of userRoleEnum (admin, user, moderator).
roleHierarchyEnumOrder ==
    [r \in UserRole |-> CASE r = "admin" -> 1 [] r = "user" -> 2 [] OTHER -> 3]

roleHierarchy == [r \in UserRole |-> CASE r = "user" -> 1 [] r = "moderator" -> 2 [] OTHER -> 3]

\* checkUserRole(requiredRole, userRole?): fetched is the profile it reads when no
\* userRole is passed.
checkUserRole(requiredRole, userRole, fetched) ==
    IF userRole = Null /\ fetched = Null THEN FALSE
    ELSE LET role == IF userRole # Null THEN userRole[1] ELSE fetched[1].role
         IN  roleHierarchy[role] >= roleHierarchy[requiredRole]

\* Variant: the missing user is returned instead of thrown.
requireAuthNoThrow(auth) == [thrown |-> "none", user |-> getCurrentUser(auth)]

\* requireAuth: the user, or AuthError UNAUTHORIZED.
requireAuth(auth) ==
    LET u == getCurrentUser(auth)
    IN  IF u = NoUser THEN [thrown |-> "UNAUTHORIZED", user |-> NoUser]
        ELSE [thrown |-> "none", user |-> u]

\* Variant: a profile that is not active is turned away.
requireRoleActiveOnly(requiredRole, auth1, auth2, row) ==
    LET authed == requireAuth(auth1)
        prof   == getCurrentUserProfile(auth2, row)
    IN  IF authed.thrown # "none"
        THEN [thrown |-> authed.thrown, authUser |-> authed.user, profile |-> Null,
              returned |-> Null]
        ELSE IF prof = Null
        THEN [thrown |-> "PROFILE_NOT_FOUND", authUser |-> authed.user, profile |-> Null,
              returned |-> Null]
        ELSE IF ~prof[1].is_active \/ ~checkUserRole(requiredRole, Some(prof[1].role), Null)
        THEN [thrown |-> "INSUFFICIENT_PERMISSIONS", authUser |-> authed.user,
              profile |-> prof, returned |-> Null]
        ELSE [thrown |-> "none", authUser |-> authed.user, profile |-> prof,
              returned |-> prof]

\* requireRole: the profile, or an AuthError.  auth1 is what requireAuth's
\* getCurrentUser gets, auth2 and row what getCurrentUserProfile gets.
requireRole(requiredRole, auth1, auth2, row) ==
    LET authed == requireAuth(auth1)
        prof   == getCurrentUserProfile(auth2, row)
    IN  IF authed.thrown # "none"
        THEN [thrown |-> authed.thrown, authUser |-> authed.user, profile |-> Null,
              returned |-> Null]
        ELSE IF prof = Null
        THEN [thrown |-> "PROFILE_NOT_FOUND", authUser |-> authed.user, profile |-> Null,
              returned |-> Null]
        ELSE IF ~checkUserRole(requiredRole, Some(prof[1].role), Null)
        THEN [thrown |-> "INSUFFICIENT_PERMISSIONS", authUser |-> authed.user,
              profile |-> prof, returned |-> Null]
        ELSE [thrown |-> "none", authUser |-> authed.user, profile |-> prof,
              returned |-> prof]

\* No auth.ts call has been made.
NoCall ==
    [op |-> "none", requiredRole |-> "user", userRole |-> Null, authUser |-> NoUser,
     profile |-> Null, target |-> NoUser, thrown |-> "none", returned |-> Null,
     ok |-> FALSE]

\* A call of checkUserRole with the role passed in.
CallCheckUserRole ==
    \E requiredRole \in UserRole, userRole \in UserRole :
        /\ call' = [op |-> "checkUserRole", requiredRole |-> requiredRole,
                    userRole |-> Some(userRole), authUser |-> NoUser, profile |-> Null,
                    target |-> NoUser, thrown |-> "none", returned |-> Null,
                    ok |-> checkUserRole(requiredRole, Some(userRole), Null)]
        /\ UNCHANGED <<mwVars, users, session, routes, navVars, concVars, pureVars>>

\* A call of checkUserRole(requiredRole): the role is the current profile's.
CallCheckCurrentUserRole ==
    \E requiredRole \in UserRole, auth \in SessionOutcomes :
      \E row \in ProfileOutcomes(getCurrentUser(auth)) :
        LET fetched == getCurrentUserProfile(auth, row)
        IN  /\ call' = [op |-> "checkUserRole", requiredRole |-> requiredRole,
                        userRole |-> Null, authUser |-> getCurrentUser(auth),
                        profile |-> fetched, target |-> NoUser, thrown |-> "none",
                        returned |-> Null,
                        ok |-> checkUserRole(requiredRole, Null, fetched)]
            /\ UNCHANGED <<mwVars, users, session, routes, navVars, concVars, pureVars>>

\* A call of requireRole(requiredRole).
CallRequireRole ==
    \E requiredRole \in UserRole, auth1 \in SessionOutcomes, auth2 \in SessionOutcomes :
      \E row \in ProfileOutcomes(getCurrentUser(auth2)) :
        LET r == requireRole(requiredRole, auth1, auth2, row)
        IN  /\ call' = [op |-> "requireRole", requiredRole |-> requiredRole,
                        userRole |-> Null, authUser |-> r.authUser, profile |-> r.profile,
                        target |-> NoUser, thrown |-> r.thrown, returned |-> r.returned,
                        ok |-> r.thrown = "none"]
            /\ UNCHANGED <<mwVars, users, session, routes, navVars, concVars, pureVars>>

\* .from('users').update({ is_active, updated_at }).eq('id', userId): the rows
\* with that id, if any, are updated.
updateIsActive(table, userId, isActive) ==
    IF table[userId] = NoRow THEN table
    ELSE [table EXCEPT ![userId].is_active = isActive]

\* banUser and unbanUser but for the value written: requireRole('admin'), then
\* the update; whatever is thrown on the way is caught and returned as the error
\* field.  storeError is the error the update may report.
setUserActive(userId, isActive, auth1, auth2, row, storeError) ==
    LET r == requireRole("admin", auth1, auth2, row)
    IN  IF r.thrown # "none"
        THEN [authUser |-> r.authUser, profile |-> r.profile, thrown |-> "none",
              returned |-> Some([error |-> r.thrown]), users |-> users]
        ELSE IF storeError
        THEN [authUser |-> r.authUser, profile |-> r.profile, thrown |-> "none",
              returned |-> Some([error |-> "STORE_ERROR"]), users |-> users]
        ELSE [authUser |-> r.authUser, profile |-> r.profile, thrown |-> "none",
              returned |-> Some([message |-> "success"]),
              users |-> updateIsActive(users, userId, isActive)]

\* Variant: the update is made before the role is asked for.
banUserUpdatesFirst(userId, auth1, auth2, row, storeError) ==
    LET r == setUserActive(userId, FALSE, auth1, auth2, row, storeError)
    IN  [r EXCEPT !.users = IF storeError THEN users
                            ELSE updateIsActive(users, userId, FALSE)]

banUser(userId, auth1, auth2, row, storeError) ==
    setUserActive(userId, FALSE, auth1, auth2, row, storeError)

\* Variant: unbanUser writes is_active false, like banUser.
unbanUserWritesFalse(userId, auth1, auth2, row, storeError) ==
    setUserActive(userId, FALSE, auth1, auth2, row, storeError)

unbanUser(userId, auth1, auth2, row, storeError) ==
    setUserActive(userId, TRUE, auth1, auth2, row, storeError)

\* A call of banUser(userId).
CallBanUser ==
    \E userId \in UserIds, auth1 \in SessionOutcomes, auth2 \in SessionOutcomes,
       storeError \in BOOLEAN :
      \E row \in ProfileOutcomes(getCurrentUser(auth2)) :
        LET r == banUser(userId, auth1, auth2, row, storeError)
        IN  /\ call' = [op |-> "banUser", requiredRole |-> "admin", userRole |-> Null,
                        authUser |-> r.authUser, profile |-> r.profile,
                        target |-> userId, thrown |-> r.thrown, returned |-> r.returned,
                        ok |-> "message" \in DOMAIN r.returned[1]]
            /\ users' = r.users
            /\ UNCHANGED <<mwVars, session, routes, navVars, concVars, pwd>>

\* A call of unbanUser(userId).
CallUnbanUser ==
    \E userId \in UserIds, auth1 \in SessionOutcomes, auth2 \in SessionOutcomes,
       storeError \in BOOLEAN :
      \E row \in ProfileOutcomes(getCurrentUser(auth2)) :
        LET r == unbanUser(userId, auth1, auth2, row, storeError)
        IN  /\ call' = [op |-> "unbanUser", requiredRole |-> "admin", userRole |-> Null,
                        authUser |-> r.authUser, profile |-> r.profile,
                        target |-> userId, thrown |-> r.thrown, returned |-> r.returned,
                        ok |-> "message" \in DOMAIN r.returned[1]]
            /\ users' = r.users
            /\ UNCHANGED <<mwVars, session, routes, navVars, concVars, pwd>>

-----------------------------------------------------------------------------
(* lib/auth.ts: accounts and profiles *)

\* What supabase.auth.signUp and signInWithPassword resolve to: a user, an error,
\* or neither.
CredentialOutcomes ==
    { [user |-> NoUser, error |-> TRUE], [user |-> NoUser, error |-> FALSE] }
        \cup { [user |-> u, error |-> FALSE] : u \in UserIds }

\* value || null for a name: undefined, null and "" give null.
NameOrNull(v) == IF v = Null THEN NullName ELSE IF v[1] = "" THEN NullName ELSE v[1]

\* Variant: a profile written without a role gets the role moderator.
createUserProfileDefaultModerator(table, userId, profileData, storeError) ==
    IF storeError \/ table[userId] # NoRow
    THEN [returned |-> Some([error |-> "STORE_ERROR"]), users |-> table]
    ELSE [returned |-> Some([message |-> "Profile created successfully"]),
          users |-> [table EXCEPT ![userId] =
                        [role |-> IF profileData.role = Null THEN "moderator"
                                  ELSE profileData.role[1],
                         is_active |-> TRUE,
                         name |-> NameOrNull(profileData.name)]]]

\* createUserProfile(userId, profileData): the insert of a row with the role
\* given or 'user'; is_active takes the column default.  The insert fails on a
\* row with that id and on a store error, and the failure is returned.
createUserProfile(table, userId, profileData, storeError) ==
    IF storeError \/ table[userId] # NoRow
    THEN [returned |-> Some([error |-> "STORE_ERROR"]), users |-> table]
    ELSE [returned |-> Some([message |-> "Profile created successfully"]),
          users |-> [table EXCEPT ![userId] =
                        [role |-> IF profileData.role = Null THEN "user"
                                  ELSE profileData.role[1],
                         is_active |-> TRUE,
                         name |-> NameOrNull(profileData.name)]]]

\* signUp(email, password, userData): the provider's signUp, then
\* createUserProfile with email and name only; its result is not looked at.
signUp(name, created, storeError) ==
    IF created.error
    THEN [returned |-> Some([error |-> "AUTH_ERROR"]), users |-> users]
    ELSE IF created.user # NoUser
    THEN [returned |-> Some([message |-> "Account created successfully"]),
          users |-> createUserProfile(users, created.user,
                                      [name |-> IF NameOrNull(name) = NullName THEN Null ELSE name,
                                       role |-> Null],
                                      storeError).users]
    ELSE [returned |-> Some([message |-> "Account created successfully"]), users |-> users]

\* { ...profileData, updated_at } written over a row: every column profileData
\* names takes its value.
Spread(row, profileData) ==
    [k \in DOMAIN row |-> IF k \in DOMAIN profileData THEN profileData[k] ELSE row[k]]

\* updateUserProfile(profileData): the update of the row of the current user;
\* .single() reports an error when no row was updated.
updateUserProfile(profileData, auth, storeError) ==
    LET u == getCurrentUser(auth)
    IN  IF u = NoUser
        THEN [authUser |-> u, returned |-> Some([error |-> "User not authenticated"]),
              users |-> users]
        ELSE IF storeError \/ users[u] = NoRow
        THEN [authUser |-> u, returned |-> Some([error |-> "STORE_ERROR"]), users |-> users]
        ELSE [authUser |-> u, returned |-> Some([message |-> "Profile updated successfully"]),
              users |-> [users EXCEPT ![u] = Spread(@, profileData)]]

\* The names a caller signs up with: none, the empty string, a name.
SignUpNames == { Null, Some(""), Some("n1") }

\* profileData objects: the declared keys, no key, and objects that carry a
\* further column (the parameter type admits them, and the spread copies them).
EmptyObject == [k \in {} |-> NullName]

ProfileDataInputs ==
    { EmptyObject, [name |-> "n1"], [name |-> "n1", role |-> "admin"],
      [name |-> "n0", is_active |-> TRUE] }

\* A call of signUp.
CallSignUp ==
    \E name \in SignUpNames, created \in CredentialOutcomes, storeError \in BOOLEAN :
        LET r == signUp(name, created, storeError)
        IN  /\ call' = [NoCall EXCEPT !.op = "signUp", !.target = created.user,
                                      !.returned = r.returned,
                                      !.ok = "message" \in DOMAIN r.returned[1]]
            /\ users' = r.users
            /\ UNCHANGED <<mwVars, session, routes, navVars, concVars, pureVars>>

\* A call of signIn: on success the caller's cookies carry the identity.
CallSignIn ==
    \E signedIn \in CredentialOutcomes :
        /\ call' = [NoCall EXCEPT !.op = "signIn", !.target = signedIn.user,
                                  !.returned = IF signedIn.error
                                               THEN Some([error |-> "AUTH_ERROR"])
                                               ELSE Some([message |-> "Signed in successfully"]),
                                  !.ok = ~signedIn.error]
        /\ session' = IF signedIn.error THEN session ELSE signedIn.user
        /\ UNCHANGED <<mwVars, users, routes, navVars, concVars, pureVars>>

\* A call of signOut.
CallSignOut ==
    \E error \in BOOLEAN :
        /\ call' = [NoCall EXCEPT !.op = "signOut", !.authUser = session,
                                  !.returned = IF error
                                               THEN Some([error |-> "AUTH_ERROR"])
                                               ELSE Some([message |-> "Signed out successfully"]),
                                  !.ok = ~error]
        /\ session' = IF error THEN session ELSE NoUser
        /\ UNCHANGED <<mwVars, users, routes, navVars, concVars, pureVars>>

\* A call of updateUserProfile(profileData).
CallUpdateUserProfile ==
    \E profileData \in ProfileDataInputs, auth \in SessionOutcomes, storeError \in BOOLEAN :
        LET r == updateUserProfile(profileData, auth, storeError)
        IN  /\ call' = [NoCall EXCEPT !.op = "updateUserProfile", !.authUser = r.authUser,
                                      !.target = r.authUser, !.returned = r.returned,
                                      !.ok = "message" \in DOMAIN r.returned[1]]
            /\ users' = r.users
            /\ UNCHANGED <<mwVars, session, routes, navVars, concVars, pureVars>>

\* The history of the status calls: the call just made is recorded for its
\* target when it succeeded.
NoStatusCalls == [id \in UserIds |-> "none"]

RecordStatusCall ==
    lastStatusCall' = IF call'.ok THEN [lastStatusCall EXCEPT ![call'.target] = call'.op]
                      ELSE lastStatusCall

-----------------------------------------------------------------------------
(* lib/auth.ts: validatePassword *)

\* Characters of a password, one of each kind the checks tell apart: "_" is in
\* none of the four classes.
PasswordChars == {"A", "a", "1", "!", "_"}

upperClass == {"A"}        \* /[A-Z]/
lowerClass == {"a"}        \* /[a-z]/
digitClass == {"1"}        \* /\d/
specialClass == {"!"}      \* /[!@#$%^&*(),.?":{}|<>]/

\* regex.test(password) for a character class.
Test(class, password) == \E i \in 1..Len(password) : password[i] \in class

minPasswordLength == 8

\* Variant: a password of exactly the minimum length is too short (length <= 8).
passwordErrorsAboveMinimum(password) ==
    (IF Len(password) <= minPasswordLength THEN <<"length">> ELSE <<>>)
        \o (IF ~Test(upperClass, password) THEN <<"uppercase">> ELSE <<>>)
        \o (IF ~Test(lowerClass, password) THEN <<"lowercase">> ELSE <<>>)
        \o (IF ~Test(digitClass, password) THEN <<"number">> ELSE <<>>)
        \o (IF ~Test(specialClass, password) THEN <<"special">> ELSE <<>>)

\* The errors array after the five checks: each failed check pushes its message.
passwordErrors(password) ==
    (IF Len(password) < minPasswordLength THEN <<"length">> ELSE <<>>)
        \o (IF ~Test(upperClass, password) THEN <<"uppercase">> ELSE <<>>)
        \o (IF ~Test(lowerClass, password) THEN <<"lowercase">> ELSE <<>>)
        \o (IF ~Test(digitClass, password) THEN <<"number">> ELSE <<>>)
        \o (IF ~Test(specialClass, password) THEN <<"special">> ELSE <<>>)

\* score after the five checks: each passed check adds 1.
passwordScore(password) ==
    (IF Len(password) < minPasswordLength THEN 0 ELSE 1)
        + (IF ~Test(upperClass, password) THEN 0 ELSE 1)
        + (IF ~Test(lowerClass, password) THEN 0 ELSE 1)
        + (IF ~Test(digitClass, password) THEN 0 ELSE 1)
        + (IF ~Test(specialClass, password) THEN 0 ELSE 1)

\* Variant: strong only with all five checks passed.
passwordStrengthAllFive(score) ==
    IF score >= 5 THEN "strong" ELSE IF score >= 3 THEN "medium" ELSE "weak"

passwordStrength(score) ==
    IF score >= 4 THEN "strong" ELSE IF score >= 3 THEN "medium" ELSE "weak"

validatePassword(password) ==
    [isValid |-> Len(passwordErrors(password)) = 0,
     errors |-> passwordErrors(password),
     strength |-> passwordStrength(passwordScore(password))]

PasswordCores == UNION { [1..k -> PasswordChars] : k \in 0..MaxCoreLen }

PasswordInputs ==
    { core \o [i \in 1..n |-> c] : core \in PasswordCores, c \in PasswordChars,
                                    n \in 0..MaxPadLen }

NoValidation == [called |-> FALSE, password |-> <<>>, result |-> validatePassword(<<>>)]

\* A call of validatePassword(password).  The function reads nothing but its
\* argument, so a behaviour makes one call.
CallValidatePassword ==
    /\ ~pwd.called
    /\ \E password \in PasswordInputs :
           pwd' = [called |-> TRUE, password |-> password,
                   result |-> validatePassword(password)]
    /\ UNCHANGED <<mwVars, users, session, call, routes, navVars, concVars, lastStatusCall>>

-----------------------------------------------------------------------------
(* Specification *)

SeedUsers ==
    [id \in UserIds |->
        [role |-> CASE id = "u1" -> "user" [] id = "u2" -> "moderator" [] OTHER -> "admin",
         is_active |-> TRUE, name |-> "n0"]]

Init ==
    /\ MiddlewareIdle
    /\ pwd = NoValidation
    /\ lastStatusCall = NoStatusCalls
    /\ users = SeedUsers
    /\ session = NoUser
    /\ call = NoCall
    /\ routes = RouteTables

Next ==
    \/ middleware
    \/ unmatched
    \/ middlewareLookup

Spec == Init /\ [][Next]_vars

\* The auth.ts calls, for any caller and any profile store; no request is in
\* middleware.
ProfileRows == { [role |-> r, is_active |-> TRUE, name |-> "n0"] : r \in UserRole } \cup { NoRow }

AuthInit ==
    /\ MiddlewareIdle
    /\ pwd = NoValidation
    /\ lastStatusCall = NoStatusCalls
    /\ users \in [UserIds -> ProfileRows]
    /\ session \in UserIds \cup {NoUser}
    /\ call = NoCall
    /\ routes = RouteTables

AuthNext ==
    \/ CallCheckUserRole
    \/ CallCheckCurrentUserRole
    \/ CallRequireRole
    \/ CallBanUser /\ UNCHANGED lastStatusCall
    \/ CallUnbanUser /\ UNCHANGED lastStatusCall

SpecAuth == AuthInit /\ [][AuthNext]_vars

\* The account calls of auth.ts, by any callers, from a store that holds the
\* profile of an admin and of nobody else, or the three seeded profiles.
AccountsInit ==
    /\ MiddlewareIdle
    /\ pwd = NoValidation
    /\ lastStatusCall = NoStatusCalls
    /\ users \in { [id \in UserIds |-> IF id = "u3" THEN SeedUsers[id] ELSE NoRow] }
    /\ session = NoUser
    /\ call = NoCall
    /\ routes = RouteTables

AccountsNext ==
    \/ CallSignUp
    \/ CallSignIn
    \/ CallSignOut
    \/ CallUpdateUserProfile
    \/ CallBanUser /\ UNCHANGED lastStatusCall
    \/ CallUnbanUser /\ UNCHANGED lastStatusCall

SpecAccounts == AccountsInit /\ [][AccountsNext]_vars

\* Requests for admin pages and role-guarded calls by callers whose accounts are
\* active or deactivated.  A call is made between two requests.
ActiveInit ==
    /\ MiddlewareIdle
    /\ pwd = NoValidation
    /\ lastStatusCall = NoStatusCalls
    /\ users \in { [id \in UserIds |-> [SeedUsers[id] EXCEPT !.is_active = active[id]]] :
                       active \in [UserIds -> BOOLEAN] }
    /\ session \in UserIds \cup {NoUser}
    /\ call = NoCall
    /\ routes = RouteTables

ActiveNext ==
    \/ middlewareAdminRequest
    \/ middlewareLookup
    \/ nextRequest
    \/ pc = "idle" /\ CallRequireRole
    \/ pc = "idle" /\ CallUnbanUser /\ UNCHANGED lastStatusCall

SpecActive == ActiveInit /\ [][ActiveNext]_vars

\* banUser and unbanUser calls by callers who sign in and out, with the history
\* of the calls that succeeded.
StatusNext ==
    \/ CallSignIn /\ call'.ok
    \/ CallBanUser /\ RecordStatusCall
    \/ CallUnbanUser /\ RecordStatusCall

SpecStatus == Init /\ [][StatusNext]_vars

\* middleware and a client that follows its redirects and signs in when sent to
\* /login.
NavNext ==
    \/ Next
    \/ followRedirect
    \/ requestAfterSignIn

SpecNav == Init /\ [][NavNext]_vars

\* Requests for admin pages, one after another, while roles change in the store.
RolesNext ==
    \/ middlewareAdminRequest
    \/ middlewareLookup
    \/ nextRequest
    \/ changeRole

SpecRoles == Init /\ [][RolesNext]_vars

\* Invocations of middleware in flight at once, interleaved at their awaits.
ConcNext ==
    \E i \in Invocations :
        \/ invokeMiddleware(i)
        \/ providerSetAll(i)
        \/ resumeAfterGetUser(i)
        \/ resumeAfterLookup(i)

SpecConc == Init /\ [][ConcNext]_vars

\* Calls of validatePassword.
SpecPassword == Init /\ [][CallValidatePassword]_vars

\* The tables after an edit at one of the "Add your ... routes here" places that
\* lists a route in two tables: /dashboard also public, /blog also protected.
RouteTablesEdited ==
    { [RouteTables EXCEPT !.publicRoutes = @ \cup { <<"/", "dashboard">> }],
      [RouteTables EXCEPT !.protectedRoutes = @ \cup { <<"/", "blog">> }] }

TablesInit ==
    /\ MiddlewareIdle
    /\ pwd = NoValidation
    /\ lastStatusCall = NoStatusCalls
    /\ users = SeedUsers
    /\ session = NoUser
    /\ call = NoCall
    /\ routes \in RouteTablesEdited

\* middleware over the edited tables.
SpecTables == TablesInit /\ [][Next]_vars

-----------------------------------------------------------------------------
(* Properties *)

Login == <<"/", "login">>
Dashboard == <<"/", "dashboard">>

\* The prefixes the claims name.
ProtectedPrefixes ==
    { <<"/", "dashboard">>, <<"/", "profile">>, <<"/", "settings">>, <<"/", "admin">> }
AuthOnlyPrefixes ==
    { <<"/", "login">>, <<"/", "signup">>, <<"/", "forgot-password">>,
      <<"/", "reset-password">> }
PublicPaths == { <<"/">>, <<"/", "about">>, <<"/", "contact">>, <<"/", "pricing">>, <<"/", "blog">> }

HasPrefixIn(s, prefixes) == \E q \in prefixes : StartsWith(s, q)
StartsProtected(s) == HasPrefixIn(s, ProtectedPrefixes)
StartsAuthOnly(s) == HasPrefixIn(s, AuthOnlyPrefixes)
StartsAdmin(s) == StartsWith(s, <<"/", "admin">>)
ClassifiedPublic(s) == \E q \in PublicPaths : s = q \/ StartsWith(s, Append(q, "/"))

Returned == pc = "done"
Pathname == request.nextUrl.pathname
RedirectTo == SearchGet(request.nextUrl.search, "redirectTo")
IsRedirect == response.kind = "redirect"
IsPassThrough == response.kind = "next" /\ response = supabaseResponse
Location == response.location[1]
RedirectsTo(path) == IsRedirect /\ Location.pathname = path

\* The number of pairs of a query string named key.
RECURSIVE CountKey(_, _)
CountKey(search, key) ==
    IF search = <<>> THEN 0
    ELSE (IF Head(search).key = key THEN 1 ELSE 0) + CountKey(Tail(search), key)

\* C1: whenever the provider set cookies through setAll while the identity was
\* resolved, the response middleware returns carries every one of them, on every
\* exit path.
C1_RefreshedCookiesOnEveryExit ==
    Returned => \A i \in 1..Len(refreshed) : refreshed[i] \in response.cookies

\* C2: a caller with no identity asking for a path p under a protected prefix is
\* redirected to the pathname /login, and the redirect's one redirectTo parameter
\* is p, the request pathname unchanged.
C2_LoginRedirectCarriesPath ==
    (Returned /\ user = NoUser /\ StartsProtected(Pathname))
        => /\ RedirectsTo(Login)
           /\ SearchGet(Location.search, "redirectTo") = Some(Pathname)
           /\ CountKey(Location.search, "redirectTo") = 1

C2_Witness ==
    /\ Returned /\ user = NoUser
    /\ Pathname = <<"/", "settings", "/", "x">>
    /\ RedirectTo = Some(<<"/", "x">>)
    /\ RedirectsTo(Login)
    /\ SearchGet(Location.search, "redirectTo") = Some(Pathname)

\* C3: an authenticated caller whose looked-up role is user or moderator, asking
\* for a path under /admin, is redirected to /dashboard and not to /login.
C3_NonAdminToDashboard ==
    (/\ Returned /\ user # NoUser /\ StartsAdmin(Pathname)
     /\ profile # Null /\ profile[1].role \in {"user", "moderator"})
        => RedirectsTo(Dashboard) /\ ~RedirectsTo(Login)

C3_Witness ==
    /\ Returned /\ user = "u2" /\ Pathname = <<"/", "admin", "/", "x">>
    /\ profile # Null /\ profile[1].role = "moderator"
    /\ RedirectsTo(Dashboard)

\* C4: a caller with no identity asking for a path that is public (a public
\* route, or a public route followed by "/") and is under no protected prefix gets
\* the pass-through response, not a redirect.
C4_PublicPassesThrough ==
    (Returned /\ user = NoUser /\ ClassifiedPublic(Pathname) /\ ~StartsProtected(Pathname))
        => IsPassThrough /\ ~IsRedirect

C4_Witness ==
    /\ Returned /\ user = NoUser /\ Pathname = <<"/", "blog", "/", "x">>
    /\ IsPassThrough

\* C5: a request whose path starts with /auth/callback gets the pass-through
\* response whatever getUser resolved to, and no role lookup is made for it.
C5_AuthCallbackPassesThrough ==
    StartsWith(Pathname, <<"/", "auth", "/", "callback">>)
        => /\ pc # "lookup"
           /\ Returned => (IsPassThrough /\ ~IsRedirect)

C5_Witness ==
    /\ Returned /\ userError /\ Pathname = <<"/", "auth", "/", "callback", "/", "x">>
    /\ refreshed # <<>>
    /\ IsPassThrough

\* A redirectTo value that is an absolute path the pathname setter leaves as it
\* is: it starts with "/", has no "." or ".." segment and nothing to escape.
IsPlainAbsolutePath(v) ==
    /\ v # <<>> /\ Head(v) = "/"
    /\ \A i \in 1..Len(v) : v[i] \notin {".", "..", "?"}

\* C6 as stated: an authenticated caller on an auth-only path, with a redirectTo
\* that is not empty and does not start with an auth-only prefix, is redirected to
\* exactly redirectTo, the query emptied.
C6_Original ==
    (/\ Returned /\ user # NoUser /\ StartsAuthOnly(Pathname)
     /\ Truthy(RedirectTo) /\ ~StartsAuthOnly(RedirectTo[1]))
        => RedirectsTo(RedirectTo[1]) /\ Location.search = <<>>

\* C6 amended: the same for a redirectTo that is also a plain absolute path.
C6_RedirectToHonoured ==
    (/\ Returned /\ user # NoUser /\ StartsAuthOnly(Pathname)
     /\ Truthy(RedirectTo) /\ ~StartsAuthOnly(RedirectTo[1])
     /\ IsPlainAbsolutePath(RedirectTo[1]))
        => RedirectsTo(RedirectTo[1]) /\ Location.search = <<>>

C6_Witness ==
    /\ Returned /\ user # NoUser /\ Pathname = Login
    /\ RedirectTo = Some(<<"/", "dashboard", "/", "x">>)
    /\ RedirectsTo(<<"/", "dashboard", "/", "x">>)
    /\ Location.search = <<>>

\* C7: an authenticated caller on an auth-only path whose redirectTo is absent,
\* empty or starts with an auth-only prefix is redirected to /dashboard, the query
\* emptied, and so not to an auth-only path.
C7_DefaultsToDashboard ==
    (/\ Returned /\ user # NoUser /\ StartsAuthOnly(Pathname)
     /\ (RedirectTo = Null \/ RedirectTo = Some(<<>>) \/ StartsAuthOnly(RedirectTo[1])))
        => /\ RedirectsTo(Dashboard)
           /\ Location.search = <<>>
           /\ ~StartsAuthOnly(Location.pathname)

C7_Witness ==
    /\ Returned /\ user # NoUser /\ Pathname = <<"/", "signup">>
    /\ RedirectTo = Some(<<"/", "login", "/", "x">>)
    /\ RedirectsTo(Dashboard)

\* The total order user < moderator < admin.
RoleOrder == <<"user", "moderator", "admin">>
Rank(r) == CHOOSE i \in 1..Len(RoleOrder) : RoleOrder[i] = r

\* C8: checkUserRole(required, actual) is true exactly when actual ranks at least
\* as high as required in user < moderator < admin.
C8_CheckUserRoleIsRankOrder ==
    (call.op = "checkUserRole" /\ call.userRole # Null)
        => (call.ok <=> Rank(call.userRole[1]) >= Rank(call.requiredRole))

C8_Witness ==
    /\ call.op = "checkUserRole"
    /\ call.requiredRole = "admin" /\ call.userRole = Some("moderator")
    /\ ~call.ok

\* C9: requireRole throws UNAUTHORIZED exactly when requireAuth found no identity,
\* throws INSUFFICIENT_PERMISSIONS when there is an identity and a profile whose
\* role ranks below the required one, and returns the profile only when its role
\* ranks high enough.
C9_RequireRoleSignals ==
    call.op = "requireRole"
        => /\ (call.authUser = NoUser) <=> (call.thrown = "UNAUTHORIZED")
           /\ (/\ call.authUser # NoUser /\ call.profile # Null
               /\ Rank(call.profile[1].role) < Rank(call.requiredRole))
                  => call.thrown = "INSUFFICIENT_PERMISSIONS"
           /\ call.thrown = "INSUFFICIENT_PERMISSIONS" => call.authUser # NoUser
           /\ call.returned # Null
                  => /\ call.thrown = "none"
                     /\ call.returned = call.profile
                     /\ Rank(call.returned[1].role) >= Rank(call.requiredRole)
           /\ call.thrown = "none" => call.returned # Null

C9_Witness ==
    /\ call.op = "requireRole" /\ call.requiredRole = "admin"
    /\ call.authUser # NoUser /\ call.profile # Null
    /\ call.profile[1].role = "moderator"
    /\ call.thrown = "INSUFFICIENT_PERMISSIONS"

\* C10: when getUser reports an error, middleware still returns a response, and it
\* is the response of the same request with no identity and no error: the login
\* redirect on a protected path, the pass-through response elsewhere.
C10_SessionErrorFailsClosed ==
    userError
        => /\ user = NoUser
           /\ pc # "lookup"
           /\ Returned
                 => /\ response.kind \in {"next", "redirect"}
                    /\ response = Decide(request, supabaseResponse, NoUser).response
                    /\ StartsProtected(Pathname)
                          => /\ RedirectsTo(Login)
                             /\ SearchGet(Location.search, "redirectTo") = Some(Pathname)
                    /\ ~StartsProtected(Pathname) => IsPassThrough

C10_Witness ==
    /\ Returned /\ userError /\ Pathname = <<"/", "profile">>
    /\ RedirectsTo(Login)

\* The role lookup of the returned invocation yielded no row: an authenticated
\* caller on an admin path always reaches the lookup.
LookupFailed == Returned /\ user # NoUser /\ StartsAdmin(Pathname) /\ profile = Null

\* C11 as stated: when the role lookup fails for an authenticated caller on an
\* admin path, the caller gets what a caller with no identity gets, the redirect
\* to /login with redirectTo set to the path.
C11_Original ==
    LookupFailed
        => /\ RedirectsTo(Login)
           /\ SearchGet(Location.search, "redirectTo") = Some(Pathname)

\* C11: when the role lookup fails (error or no row) for an authenticated caller
\* on an admin path, middleware still returns a response, and it is the one a
\* caller without the admin role gets: the redirect to /dashboard that keeps the
\* request's query string; it is neither the /login redirect nor the page.
C11_LookupFailureToDashboard ==
    LookupFailed
        => /\ RedirectsTo(Dashboard)
           /\ Location.search = request.nextUrl.search
           /\ Location.origin = request.nextUrl.origin
           /\ ~RedirectsTo(Login)
           /\ ~IsPassThrough

C11_Witness ==
    /\ LookupFailed /\ user = "u3" /\ users[user].role = "admin"
    /\ Pathname = <<"/", "admin", "/", "x">>
    /\ RedirectsTo(Dashboard)

Home == <<"/">>

\* The redirect to /login that carries the request pathname as redirectTo.
IsLoginRedirect ==
    RedirectsTo(Login) /\ SearchGet(Location.search, "redirectTo") = Some(Pathname)

\* C12 as stated: the response is the pass-through or a redirect to
\* /login?redirectTo=<path>, to /dashboard or to /, and to nothing else.
C12_Original ==
    Returned => \/ IsPassThrough
                \/ IsLoginRedirect
                \/ RedirectsTo(Dashboard)
                \/ RedirectsTo(Home)

\* The redirect of an authenticated caller on an auth-only path to the pathname
\* that the accepted redirectTo value names, with an empty query string.
IsReturnRedirect ==
    /\ IsRedirect
    /\ user # NoUser /\ StartsAuthOnly(Pathname)
    /\ Truthy(RedirectTo) /\ ~StartsAuthOnly(RedirectTo[1])
    /\ Location = URLSetSearch(URLSetPathname(request.nextUrl, RedirectTo[1]), <<>>)

\* C12: for every request and auth state middleware returns one response: the
\* pass-through response, or a redirect on the request's origin to
\* /login with redirectTo=<path> (caller without identity on a protected path),
\* to /dashboard (authenticated caller), or, for an authenticated caller on an
\* auth-only path with an accepted redirectTo, to the path redirectTo names;
\* there is no other redirect target.
C12_OutcomesAreClosed ==
    Returned
        => /\ response.kind \in {"next", "redirect"}
           /\ response.kind = "next" => IsPassThrough
           /\ IsRedirect
                => /\ Location.origin = request.nextUrl.origin
                   /\ \/ IsLoginRedirect /\ user = NoUser /\ StartsProtected(Pathname)
                      \/ RedirectsTo(Dashboard) /\ user # NoUser
                      \/ IsReturnRedirect

C12_Witness ==
    /\ Returned /\ user = "u1"
    /\ Pathname = <<"/", "login">>
    /\ RedirectTo = Some(<<"/", "profile", "/", "x">>)
    /\ IsReturnRedirect
    /\ Location.pathname = <<"/", "profile", "/", "x">>
    /\ ~RedirectsTo(Dashboard) /\ ~RedirectsTo(Home) /\ ~RedirectsTo(Login)

\* C13: every path middleware classifies as admin it also classifies as
\* protected, so on an admin path a caller with no identity gets the /login
\* redirect, an authenticated caller reaches the role lookup, and the page is
\* passed through only to a caller whose looked-up role is admin.
C13_AdminWithinProtected ==
    (pc # "idle" /\ isAdminRoute(Pathname))
        => /\ isProtectedRoute(Pathname)
           /\ pc = "lookup" => user # NoUser
           /\ (Returned /\ user = NoUser) => IsLoginRedirect
           /\ (Returned /\ user # NoUser) => profile # Null \/ RedirectsTo(Dashboard)
           /\ (Returned /\ IsPassThrough)
                => user # NoUser /\ profile # Null /\ profile[1].role = "admin"

C13_Witness ==
    /\ Returned /\ user = "u3"
    /\ Pathname = <<"/", "admin", "x">>
    /\ isAdminRoute(Pathname) /\ isProtectedRoute(Pathname)
    /\ profile = Some(users["u3"]) /\ IsPassThrough

\* The public and the protected match of a path against the tables in use.
MatchesPublic(s) ==
    \E q \in routes.publicRoutes : s = q \/ StartsWith(s, Append(q, "/"))
MatchesProtected(s) == HasPrefixIn(s, routes.protectedRoutes)

C15_EveryProtectedRequestIsGated ==
    (pc # "idle" /\ StartsProtected(Pathname))
        => /\ pc # "unmatched"
           /\ (Returned /\ user = NoUser) => IsLoginRedirect

NoRepeat(seq) == \A i, j \in 1..Len(seq) : i # j => seq[i] # seq[j]

\* C16: with the session and the role fixed, a client that follows every
\* redirect of middleware never requests a URL twice, and the third request of a
\* chain at the latest is passed through: no chain has more than two redirects.
C16_NoRedirectLoop ==
    /\ NoRepeat(trail)
    /\ Len(trail) <= 3
    /\ (Returned /\ Len(trail) = 3) => IsPassThrough

C16_Witness ==
    /\ Returned /\ user = "u1" /\ Len(trail) = 3
    /\ trail[1].pathname = Login
    /\ SearchGet(trail[1].search, "redirectTo") = Some(<<"login">>)
    /\ trail[2].pathname = Login
    /\ trail[3].pathname = Dashboard
    /\ IsPassThrough

\* C17: when a caller with no identity asked for a protected path p, was
\* redirected to the login URL, signed in and requested that login URL,
\* middleware redirects to exactly p, with an empty query string.
C17_LoginRoundTrip ==
    (Returned /\ Truthy(intended))
        => /\ StartsProtected(intended[1])
           /\ Pathname = Login /\ RedirectTo = intended
           /\ RedirectsTo(intended[1])
           /\ Location.search = <<>>

C17_Witness ==
    /\ Returned /\ user = "u2"
    /\ intended = Some(<<"/", "settings", "/", "x">>)
    /\ Pathname = Login
    /\ CountKey(request.nextUrl.search, "tab") = 1
    /\ RedirectsTo(<<"/", "settings", "/", "x">>)

\* C18: the role is read from the profile store in every request: whenever the
\* role lookup of a request to an admin path resolves, the row it yields is the
\* one stored at that moment, whatever was stored during earlier requests, and
\* the response follows it: pass-through for admin, the /dashboard redirect for
\* any other role or for no row.
C18_RolePerRequest ==
    [][(pc = "lookup" /\ pc' = "done")
          => /\ profile' # Null => profile' = Some(users[user])
             /\ (profile' # Null /\ users[user].role = "admin")
                  => response' = supabaseResponse
             /\ (profile' = Null \/ users[user].role # "admin")
                  => /\ response'.kind = "redirect"
                     /\ response'.location[1].pathname = Dashboard]_vars

\* u3, admin when the store was seeded, has been demoted and is turned away,
\* while u1, seeded as user, has been promoted.
C18_Witness ==
    /\ Returned /\ StartsAdmin(Pathname)
    /\ user = "u3" /\ users["u3"].role = "user"
    /\ profile = Some(users["u3"]) /\ RedirectsTo(Dashboard)
    /\ users["u1"].role = "admin"

\* What invocation i returns when it runs with no other invocation in flight: the
\* result of its request, its cookies to set, its identity and its role lookup.
Alone(i) ==
    LET set == setAll(inv[i].req, NextResponseNext, inv[i].cookiesToSet)
        d   == OnGetUser(set.request, set.supabaseResponse, inv[i].auth)
    IN  IF d.await
        THEN OnLookup(set.request, set.supabaseResponse, inv[i].auth.user, inv[i].profile)
        ELSE d.response

\* C19: however concurrent invocations of middleware interleave at their awaits,
\* the response each returns, cookies included, is the one it returns when it
\* runs alone, and the request it forwards carries its own cookies only.
C19_InvocationsDoNotInterfere ==
    \A i \in Invocations :
        inv[i].pc = "done"
            => /\ inv[i].response = Alone(i)
               /\ inv[i].request.cookies
                      = CookiesSetAll(inv[i].req.cookies, inv[i].cookiesToSet)

\* Invocation 1 refreshed the session and passed through with the new cookie
\* while invocation 2, begun before 1 returned, passed through with none.
C19_Witness ==
    /\ inv[1].pc = "done" /\ inv[2].pc = "done"
    /\ inv[1].cookiesToSet # <<>> /\ inv[2].cookiesToSet = <<>>
    /\ inv[1].req.nextUrl.pathname = <<"/", "about">>
    /\ inv[2].req.nextUrl.pathname = <<"/", "about">>
    /\ inv[1].response.kind = "next" /\ inv[1].response.cookies # {}
    /\ inv[2].response.kind = "next" /\ inv[2].response.cookies = {}

\* The caller of an auth.ts call is unauthenticated, has no profile, or has a
\* role below admin.
NotAnAdmin ==
    \/ session = NoUser
    \/ users[session] = NoRow
    \/ users[session].role # "admin"

\* C20: a call of banUser or unbanUser by a caller who is unauthenticated, has no
\* profile or has a role below admin returns a result with an error field, throws
\* nothing, and leaves the users table, the target's is_active included, as it
\* was.
C20_BanRequiresAdmin ==
    [][(call'.op \in {"banUser", "unbanUser"} /\ NotAnAdmin)
          => /\ call'.thrown = "none"
             /\ call'.returned # Null
             /\ DOMAIN call'.returned[1] = {"error"}
             /\ users' = users
             /\ users'[call'.target].is_active = users[call'.target].is_active]_vars

\* A moderator's banUser("u1") came back with the permission error and u1 is
\* still active.
C20_Witness ==
    /\ call.op = "banUser" /\ call.target = "u1"
    /\ session = "u2" /\ users["u2"].role = "moderator"
    /\ call.returned = Some([error |-> "INSUFFICIENT_PERMISSIONS"])
    /\ call.thrown = "none"
    /\ users["u1"] # NoRow /\ users["u1"].is_active

\* The five criteria, in the order of the checks.
Criteria == <<"length", "uppercase", "lowercase", "number", "special">>

Meets(password, c) ==
    CASE c = "length" -> Len(password) >= 8
      [] c = "uppercase" -> \E i \in DOMAIN password : password[i] = "A"
      [] c = "lowercase" -> \E i \in DOMAIN password : password[i] = "a"
      [] c = "number" -> \E i \in DOMAIN password : password[i] = "1"
      [] OTHER -> \E i \in DOMAIN password : password[i] = "!"

MeetsNot(c) == ~Meets(pwd.password, c)

\* The number of criteria the password of the last call meets.
CriteriaMet == Cardinality({ i \in DOMAIN Criteria : Meets(pwd.password, Criteria[i]) })

\* C21: validatePassword(password).isValid is true exactly when all five
\* criteria hold, and errors holds one message for each failed criterion and no
\* other, in the order length, uppercase, lowercase, number, special.
C21_ValidatePasswordCriteria ==
    pwd.called
        => /\ pwd.result.isValid <=> \A i \in DOMAIN Criteria : Meets(pwd.password, Criteria[i])
           /\ pwd.result.errors = SelectSeq(Criteria, MeetsNot)

C21_Witness ==
    /\ pwd.called
    /\ pwd.password = <<"A", "a", "_", "_", "_", "_", "_", "_">>
    /\ pwd.result.errors = <<"number", "special">>
    /\ ~pwd.result.isValid

\* C30: with k the number of the five criteria the password meets, strength is
\* strong exactly when k >= 4, medium exactly when k = 3 and weak exactly when
\* k <= 2; errors has 5 - k messages; so a valid password is strong.
C30_StrengthFollowsCount ==
    pwd.called
        => /\ pwd.result.strength = "strong" <=> CriteriaMet >= 4
           /\ pwd.result.strength = "medium" <=> CriteriaMet = 3
           /\ pwd.result.strength = "weak" <=> CriteriaMet <= 2
           /\ Len(pwd.result.errors) = 5 - CriteriaMet
           /\ pwd.result.isValid => pwd.result.strength = "strong"

\* A strong password that is not valid: eight characters with no special one.
C30_Witness ==
    /\ pwd.called
    /\ pwd.password = <<"A", "a", "1", "1", "1", "1", "1", "1">>
    /\ CriteriaMet = 4
    /\ pwd.result.strength = "strong"
    /\ ~pwd.result.isValid

\* The classification the rule gives a path: public by equality with a public
\* route or by that route and "/" as a prefix, the others by plain prefix.
RulePublic(s) == \E q \in PublicPaths : s = q \/ StartsWith(s, q \o <<"/">>)
RuleProtected(s) == \E q \in ProtectedPrefixes : StartsWith(s, q)
RuleAuthOnly(s) == \E q \in AuthOnlyPrefixes : StartsWith(s, q)
RuleAdmin(s) == StartsWith(s, <<"/", "admin">>)

\* The four classifications of the request path agree with the rule, whatever
\* the query string, the cookies and the caller are.
ClassifiedByRule ==
    /\ isPublicRoute(Pathname) <=> RulePublic(Pathname)
    /\ isProtectedRoute(Pathname) <=> RuleProtected(Pathname)
    /\ isAuthRoute(Pathname) <=> RuleAuthOnly(Pathname)
    /\ isAdminRoute(Pathname) <=> RuleAdmin(Pathname)

\* The path is public through the route "/" and through no other public route.
PublicByRootOnly(s) ==
    /\ isPublicRoute(s)
    /\ ~ \E q \in PublicPaths \ { Home } : s = q \/ StartsWith(s, q \o <<"/">>)

\* C22 as stated: the classification agrees with the rule, and the route "/"
\* makes only the path "/" public.
C22_Original ==
    pc # "idle" => ClassifiedByRule /\ (PublicByRootOnly(Pathname) => Pathname = Home)

\* C22: for every request the classification agrees with the rule and is the
\* same for every query string, cookie set and caller; the route "/" makes
\* public the path "/" and, besides it, only paths that begin with "//".
C22_ClassificationFollowsRule ==
    pc # "idle"
        => /\ ClassifiedByRule
           /\ PublicByRootOnly(Pathname)
                => Pathname = Home \/ StartsWith(Pathname, <<"/", "/">>)

\* /x is in no table although it begins with the route "/"; the caller is
\* signed in and the request has a query string.
C22_Witness ==
    /\ Returned /\ user = "u1"
    /\ Pathname = <<"/", "x">> /\ request.nextUrl.search # <<>>
    /\ ~isPublicRoute(Pathname) /\ ~isProtectedRoute(Pathname)
    /\ ~isAuthRoute(Pathname) /\ ~isAdminRoute(Pathname)
    /\ IsPassThrough

\* The redirect conditions: no identity on a protected path; an authenticated
\* caller on an auth-only path; an authenticated caller on an admin path whose
\* stored role is not admin, or for whom the role lookup did not yield admin.
NoIdentityOnProtected == user = NoUser /\ StartsProtected(Pathname)
AuthenticatedOnAuthOnly == user # NoUser /\ StartsAuthOnly(Pathname)
StoredNonAdminOnAdmin ==
    user # NoUser /\ StartsAdmin(Pathname) /\ users[user].role # "admin"
LookedUpNonAdminOnAdmin ==
    user # NoUser /\ StartsAdmin(Pathname) /\ (profile = Null \/ profile[1].role # "admin")

\* C23 as stated: when the caller is not without identity on a protected path,
\* not a non-admin on an admin path and not authenticated on an auth-only path,
\* middleware returns the pass-through response; an admin on an admin path
\* passes through.
C23_Original ==
    (Returned /\ ~NoIdentityOnProtected /\ ~StoredNonAdminOnAdmin /\ ~AuthenticatedOnAuthOnly)
        => IsPassThrough

\* C23: the same with the second condition read off the role lookup: when the
\* caller is not without identity on a protected path, not authenticated on an
\* auth-only path, and not an authenticated caller on an admin path whose role
\* lookup failed or yielded another role than admin, middleware returns the
\* pass-through response.
C23_PassThroughOtherwise ==
    (Returned /\ ~NoIdentityOnProtected /\ ~LookedUpNonAdminOnAdmin
              /\ ~AuthenticatedOnAuthOnly)
        => IsPassThrough /\ ~IsRedirect

\* A caller without identity on an auth-only path passes through.
C23_Witness ==
    /\ Returned /\ user = NoUser
    /\ Pathname = <<"/", "signup", "/", "x">>
    /\ RedirectTo = Some(<<"/", "dashboard">>)
    /\ IsPassThrough

\* The number of the public, protected and auth-only classifications the path has.
ClassCount(s) ==
    (IF isPublicRoute(s) THEN 1 ELSE 0) + (IF isProtectedRoute(s) THEN 1 ELSE 0)
        + (IF isAuthRoute(s) THEN 1 ELSE 0)

\* C27: with the tables as configured no request path is both public and
\* protected, both public and auth-only, or both protected and auth-only: at
\* most one of the three classifications holds.
C27_ClassificationsDisjoint ==
    pc # "idle"
        => /\ ~(isPublicRoute(Pathname) /\ isProtectedRoute(Pathname))
           /\ ~(isPublicRoute(Pathname) /\ isAuthRoute(Pathname))
           /\ ~(isProtectedRoute(Pathname) /\ isAuthRoute(Pathname))
           /\ ClassCount(Pathname) <= 1

C27_Witness ==
    /\ Returned /\ routes = RouteTables
    /\ Pathname = <<"/", "dashboard", "/", "x">>
    /\ isProtectedRoute(Pathname) /\ ~isPublicRoute(Pathname) /\ ~isAuthRoute(Pathname)
    /\ ClassCount(Pathname) = 1

\* C29: every redirect middleware returns has the origin of the request URL,
\* whatever the redirectTo parameter holds: redirectTo only becomes the pathname
\* of a clone of the request URL, so the redirect never names another origin.
C29_RedirectKeepsOrigin ==
    Returned /\ IsRedirect
        => /\ Location.origin = request.nextUrl.origin
           /\ Location.origin = Origin
           /\ Truthy(RedirectTo) /\ RedirectTo[1] \in ForeignRedirectToInputs
                /\ user # NoUser /\ isAuthRoute(Pathname)
                => Location = [origin |-> Origin,
                               pathname |-> URLSetPathname(request.nextUrl, RedirectTo[1]).pathname,
                               search |-> <<>>]

C29_Witness ==
    /\ Returned /\ IsRedirect /\ user = "u1"
    /\ Pathname = <<"/", "login">>
    /\ RedirectTo = Some(<<"/", "/", "evil.example">>)
    /\ Location = [origin |-> Origin, pathname |-> <<"/", "/", "evil.example">>,
                   search |-> <<>>]

\* C25: no call of signUp, signIn, signOut, updateUserProfile, banUser or
\* unbanUser changes the role of a profile that exists or removes the profile;
\* updateUserProfile changes at most the name of the caller's row, and banUser
\* and unbanUser at most is_active of the target's row.
C25_RoleNeverChanges ==
    [][/\ \A id \in UserIds :
              users[id] # NoRow
                  => users'[id] # NoRow /\ users'[id].role = users[id].role
       /\ call'.op = "updateUserProfile"
              => \A id \in UserIds :
                     /\ id # call'.authUser => users'[id] = users[id]
                     /\ users[id] # NoRow => users'[id].is_active = users[id].is_active
       /\ call'.op \in {"banUser", "unbanUser"}
              => \A id \in UserIds :
                     /\ id # call'.target => users'[id] = users[id]
                     /\ users'[id].name = users[id].name]_vars

\* C28: a call of signUp creates at most the profile of the user the provider
\* created, with role 'user' and is_active true, and leaves every existing
\* profile as it is: no signUp creates a moderator or an admin.
C28_SignUpCreatesRoleUser ==
    [][call'.op = "signUp"
          => \A id \in UserIds :
                 /\ users[id] # NoRow => users'[id] = users[id]
                 /\ users[id] = NoRow /\ users'[id] # NoRow
                        => /\ id = call'.target
                           /\ users'[id].role = "user"
                           /\ users'[id].is_active]_vars

C28_Witness ==
    /\ call.op = "signUp" /\ call.ok /\ call.target = "u1"
    /\ users["u1"] = [role |-> "user", is_active |-> TRUE, name |-> "n1"]
    /\ users["u2"] = NoRow

FlipRow(row) == [row EXCEPT !.is_active = ~@]
FlipData(data) == IF data = Null THEN Null ELSE Some(FlipRow(data[1]))
FlipOutcome(row) == [row EXCEPT !.data = FlipData(@)]

\* C24: is_active of the caller's profile has no part in an access decision.
\* Middleware's response is the same for the role lookup result and for that
\* result with the other is_active value; requireRole throws the same, and
\* returns the same profile but for is_active, for either value (requireAuth
\* reads no profile); and a caller whose profile is an admin's is let through
\* by unbanUser whether the profile is active or not.
C24_IsActiveNotConsulted ==
    /\ pc = "lookup"
          => \A data \in LookupOutcomes(user) :
                 OnLookup(request, supabaseResponse, user, data)
                     = OnLookup(request, supabaseResponse, user, FlipData(data))
    /\ Returned /\ profile # Null
          => response = OnLookup(request, supabaseResponse, user, FlipData(profile))
    /\ \A requiredRole \in UserRole, auth1 \in SessionOutcomes, auth2 \in SessionOutcomes :
          \A row \in ProfileOutcomes(getCurrentUser(auth2)) :
              LET r == requireRole(requiredRole, auth1, auth2, row)
                  f == requireRole(requiredRole, auth1, auth2, FlipOutcome(row))
              IN  /\ r.thrown = f.thrown
                  /\ r.authUser = f.authUser
                  /\ r.returned = FlipData(f.returned)
                  /\ requireAuth(auth1) = [thrown |-> r.thrown, user |-> r.authUser]
                         \/ r.thrown \in {"PROFILE_NOT_FOUND", "INSUFFICIENT_PERMISSIONS"}
    /\ call.op = "unbanUser" /\ call.profile # Null /\ call.profile[1].role = "admin"
          => call.ok \/ call.returned = Some([error |-> "STORE_ERROR"])

C24_Witness ==
    /\ Returned /\ user = "u3" /\ Pathname = <<"/", "admin">>
    /\ profile = Some([role |-> "admin", is_active |-> FALSE, name |-> "n0"])
    /\ IsPassThrough
    /\ call.op = "unbanUser" /\ call.ok /\ call.authUser = "u3" /\ call.target = "u1"
    /\ call.profile = profile
    /\ users["u1"].is_active /\ ~users["u3"].is_active

====
